---- MODULE Spec2Model ----
(***************************************************************************)
(* Ring Of Fire game server: src/api/game_management.js, lines 1-402 (the  *)
(* documented version of the module, with Game.removePlayer, Game.calcHost *)
(* and onLeaveRoom).                                                       *)
(*                                                                         *)
(* Two specifications share the variables:                                 *)
(*   Spec     the Socket.IO gateway: connections send createGame, joinGame,*)
(*            startGame, nextRound, getCard and disconnect.  One step is   *)
(*            the whole dispatch of one inbound event: every listener the  *)
(*            socket has for it runs, in registration order, until one     *)
(*            throws.                                                      *)
(*   SpecGame the Game and Deck classes alone: one Game object, one step   *)
(*            is one method call on it.                                    *)
(*                                                                         *)
(* JavaScript values: array indices are 0-based as in the source;          *)
(* `undefined` is the string Undefined; NaN is the integer NaN.            *)
(***************************************************************************)
EXTENDS Integers, Sequences, FiniteSets, TLC

\* ---------------------------------------------------------------- bounds
MaxSockets == 2      \* connections open at the same time
MaxGames == 2        \* createGame events ever handled (ids drawn by nanoid)
MaxRegs == 2         \* successful createGame/joinGame events per connection
NumUsers == 3        \* distinct usernames clients send
NumCards == 2        \* cards of data/cards.json

Names == <<"alice", "bob", "carol", "dave", "erin">>
Usernames == { Names[i] : i \in 1..NumUsers }
GameNames == {"Pub Quiz"}
Sockets == 1..MaxSockets
GameIDs == 1..MaxGames

Undefined == "undefined"
NaN == -1

\* cardsJSON.cards (data/cards.json): the catalog, one code per card.
cardsJSON == [i \in 1..NumCards |-> i]

\* A card object without an action property (or with action undefined: JSON
\* shows the two alike).
NoAction == <<Undefined>>

\* gameRules (data/rules.json): code -> action text; the last code of the
\* catalog has no rule.
gameRules(code) == IF code < NumCards \/ NumCards = 1 THEN <<"rule", code>> ELSE <<Undefined>>

\* The card objects as data/cards.json gives them: {code, title, href}.
LoadedCatalog == [code \in 1..NumCards |-> NoAction]

\* GET /cards: res.json(cardsJSON), the card objects as they are now.
GetCards(cat) == [code \in 1..NumCards |-> [code |-> code, action |-> cat[code]]]

VARIABLES
  games,      \* const games = {}: gameID -> Game object
  rooms,      \* Socket.IO rooms: gameID -> set of sockets that joined it
  connected,  \* sockets whose 'connection' event has run and that are open
  regs,       \* socket -> sequence of [gameID, username]: the listener sets
              \* registered on it by createGame / joinGame, in order
  usedIDs,    \* how many ids nanoid has returned so far
  emitted,    \* messages emitted while handling the last event
  thrown,     \* how the last dispatch / call ended: "none" or the exception
  event,      \* the last inbound event (Spec) or method call (SpecGame), with
              \* the registry as it was before it (before)
  ret,        \* SpecGame: the value the last method call returned
  catalog,    \* the card objects of cardsJSON.cards, shared by the /cards
              \* endpoint and every deck: code -> value of its action property
  hist        \* what has been observed so far, per gameID: round, the username
              \* of the last nextRound broadcast; roster, the players of the
              \* last gameJoined / userJoined / userLeft; drawn, the codes
              \* pickNextCard has returned, in order

vars == <<games, rooms, connected, regs, usedIDs, emitted, thrown, event, ret, catalog, hist>>

\* ------------------------------------------------------------ JS helpers
\* array[i] with a 0-based index: undefined when out of range (or NaN).
Index(arr, i) == IF i \in 0..(Len(arr) - 1) THEN arr[i + 1] ELSE Undefined

\* Array.prototype.indexOf: first 0-based position, or -1.
IndexOf(arr, x) ==
  IF \E i \in 1..Len(arr) : arr[i] = x
  THEN (CHOOSE i \in 1..Len(arr) : arr[i] = x /\ \A j \in 1..(i - 1) : arr[j] # x) - 1
  ELSE -1

\* Array.prototype.splice(i, 1) with a valid 0-based i.
Splice1(arr, i) == [k \in 1..(Len(arr) - 1) |-> IF k <= i THEN arr[k] ELSE arr[k + 1]]

\* (a + 1) % n on JS numbers: NaN when a is NaN or n is 0.
IncMod(a, n) == IF a = NaN \/ n = 0 THEN NaN ELSE (a + 1) % n

\* All orders _.shuffle can return.
Shuffles(arr) ==
  { [k \in 1..Len(arr) |-> arr[p[k]]] :
      p \in { q \in [1..Len(arr) -> 1..Len(arr)] :
                \A a, b \in 1..Len(arr) : a # b => q[a] # q[b] } }

\* --------------------------------------------------------------- Deck
NewDeck == [cards |-> cardsJSON]

\* Mutant of pickNextCard: the card is read from the end, not popped.
pickNextCard_NoPop(deck, cat) ==
  { IF Len(sh) = 0
    THEN [deck |-> [cards |-> sh], threw |-> "TypeError", card |-> Undefined,
          catalog |-> cat]
    ELSE LET code == sh[Len(sh)]
             cat1 == [cat EXCEPT ![code] = gameRules(code)]
         IN [deck |-> [cards |-> sh], threw |-> "none",
             card |-> [code |-> code, action |-> cat1[code]], catalog |-> cat1]
    : sh \in Shuffles(deck.cards) }

\* Deck.pickNextCard: the outcomes [deck, threw, card, catalog] of one call.
\* deck.cards holds references (codes) to the card objects of the catalog;
\* `card.action = ...` writes to the shared object, and on an empty deck
\* card is undefined, so that assignment throws TypeError.
pickNextCard(deck, cat) ==
  { IF Len(sh) = 0
    THEN [deck |-> [cards |-> sh], threw |-> "TypeError", card |-> Undefined,
          catalog |-> cat]
    ELSE LET code == sh[Len(sh)]
             cat1 == [cat EXCEPT ![code] = gameRules(code)]
         IN [deck |-> [cards |-> SubSeq(sh, 1, Len(sh) - 1)], threw |-> "none",
             card |-> [code |-> code, action |-> cat1[code]], catalog |-> cat1]
    : sh \in Shuffles(deck.cards) }

\* --------------------------------------------------------------- Game
\* Mutant of the Game constructor: the game is created already playing.
NewGame_Playing(gameName, host, id) ==
  [ gameName |-> gameName, host |-> host, gameID |-> id, players |-> <<host>>,
    isPlaying |-> TRUE, currentPlayerIndex |-> 0, deck |-> NewDeck ]

NewGame(gameName, host, id) ==
  [ gameName |-> gameName, host |-> host, gameID |-> id, players |-> <<host>>,
    isPlaying |-> FALSE, currentPlayerIndex |-> 0, deck |-> NewDeck ]

\* Game.nextPlayer: [game, ret].
nextPlayer(game) ==
  LET i == IncMod(game.currentPlayerIndex, Len(game.players))
  IN [game |-> [game EXCEPT !.currentPlayerIndex = i], ret |-> Index(game.players, i)]

\* get currentPlayer(): the value of the accessor property.
currentPlayer(game) == Index(game.players, game.currentPlayerIndex)

\* get numPlayers()
numPlayers(game) == Len(game.players)

\* Mutant of addPlayer: no check that the game has started.
addPlayer_NoStartedCheck(game, player) ==
  IF IndexOf(game.players, player) # -1
  THEN [game |-> game, threw |-> "Error: already in the game"]
  ELSE [game |-> [game EXCEPT !.players = Append(@, player)], threw |-> "none"]

\* Mutant of addPlayer: no check that the user is already in the game.
addPlayer_NoDuplicateCheck(game, player) ==
  IF game.isPlaying = TRUE
  THEN [game |-> game, threw |-> "Error: already started"]
  ELSE [game |-> [game EXCEPT !.players = Append(@, player)], threw |-> "none"]

\* Mutant of addPlayer: the player is put at the front (unshift for push).
addPlayer_Unshift(game, player) ==
  IF game.isPlaying = TRUE
  THEN [game |-> game, threw |-> "Error: already started"]
  ELSE IF IndexOf(game.players, player) # -1
  THEN [game |-> game, threw |-> "Error: already in the game"]
  ELSE [game |-> [game EXCEPT !.players = <<player>> \o @], threw |-> "none"]

\* Game.addPlayer: [game, threw].
addPlayer(game, player) ==
  IF game.isPlaying = TRUE
  THEN [game |-> game, threw |-> "Error: already started"]
  ELSE IF IndexOf(game.players, player) # -1
  THEN [game |-> game, threw |-> "Error: already in the game"]
  ELSE [game |-> [game EXCEPT !.players = Append(@, player)], threw |-> "none"]

\* Game._randomPlayerIndex: Math.floor(Math.random() * length), random in [0, 1).
randomPlayerIndex(game) == IF Len(game.players) = 0 THEN {0} ELSE 0..(Len(game.players) - 1)

\* Game.startGame: the set of games it can leave.
startGame(game) ==
  { [game EXCEPT !.currentPlayerIndex = i, !.isPlaying = TRUE] : i \in randomPlayerIndex(game) }

\* Mutant of removePlayer: splice(indexOfPlayer) without a count, which cuts
\* the list from that position on.
removePlayer_SpliceToEnd(game, username) ==
  LET indexOfPlayer == IndexOf(game.players, username)
  IN IF indexOfPlayer # -1
     THEN [game EXCEPT !.players = SubSeq(@, 1, indexOfPlayer)]
     ELSE game

\* Game.removePlayer
removePlayer(game, username) ==
  LET indexOfPlayer == IndexOf(game.players, username)
  IN IF indexOfPlayer # -1
     THEN [game EXCEPT !.players = Splice1(@, indexOfPlayer)]
     ELSE game

\* Mutant of calcHost: the host becomes the player who joined last.
calcHost_Newest(game) ==
  LET h == Index(game.players, Len(game.players) - 1)
  IN [game |-> [game EXCEPT !.host = h], ret |-> h]

\* Mutant of calcHost: the host is left as it was.
calcHost_KeepsHost(game) == [game |-> game, ret |-> game.host]

\* Game.calcHost: [game, ret].
calcHost(game) ==
  LET h == Index(game.players, 0)
  IN [game |-> [game EXCEPT !.host = h], ret |-> h]

\* ------------------------------------------------------ gateway helpers
\* The part of the state a listener can change: [games, emitted, thrown,
\* catalog], with drawn, the codes pickNextCard has returned per gameID.
Throw(st, e) == [st EXCEPT !.thrown = e]
Emit(st, msg) == [st EXCEPT !.emitted = Append(@, msg)]
SetGame(st, id, game) == [st EXCEPT !.games = [@ EXCEPT ![id] = game]]

\* io.in(gameID).emit(name, payload): delivered to the sockets in the room.
ToRoom(rm, gameID, name, payload) ==
  [name |-> name, room |-> gameID, to |-> rm[gameID], payload |-> payload]

\* socket.emit(name, payload)
ToSocket(s, name, payload) ==
  [name |-> name, room |-> 0, to |-> {s}, payload |-> payload]

\* The call expression `game.currentPlayer()` of the listeners.  currentPlayer
\* is an accessor property (get currentPlayer()), so `game.currentPlayer` is
\* already the username (or undefined) and calling that value throws
\* "TypeError: game.currentPlayer is not a function".
CallCurrentPlayer(game) == [threw |-> "TypeError", value |-> Undefined]

\* delete games[gameID]
DeleteGame(gs, id) == [g \in (DOMAIN gs) \ {id} |-> gs[g]]

\* ------------------------------------------------------------ listeners
\* Each listener closes over (gameID, username) = reg and maps the state it
\* finds to the set of states it can leave.

\* socket.on('startGame', ...) of registerStartGameEvent
registerStartGameEvent(reg, st, rm) ==
  IF reg.gameID \notin DOMAIN st.games
  THEN {Throw(st, "TypeError")}
  ELSE { LET st1 == SetGame(st, reg.gameID, g2)
             c == CallCurrentPlayer(g2)
         IN IF c.threw # "none"
            THEN Throw(st1, c.threw)
            ELSE Emit(st1, ToRoom(rm, reg.gameID, "nextRound", [username |-> c.value]))
         : g2 \in startGame(st.games[reg.gameID]) }

\* socket.on('nextRound', ...) of onNextRound
onNextRound(reg, st, rm) ==
  IF reg.gameID \notin DOMAIN st.games
  THEN {Throw(st, "TypeError")}
  ELSE LET game == st.games[reg.gameID]
           c == CallCurrentPlayer(game)
           n == nextPlayer(game)
       IN IF c.threw # "none"
          THEN {Throw(st, c.threw)}
          ELSE IF c.value # reg.username
          THEN {st}
          ELSE {Emit(SetGame(st, reg.gameID, n.game),
                     ToRoom(rm, reg.gameID, "nextRound", [username |-> n.ret]))}

\* socket.on('getCard', ...) of onGetCard
onGetCard(reg, st, rm) ==
  IF reg.gameID \notin DOMAIN st.games
  THEN {Throw(st, "TypeError")}
  ELSE LET game == st.games[reg.gameID]
           c == CallCurrentPlayer(game)
       IN IF c.threw # "none"
          THEN {Throw(st, c.threw)}
          ELSE IF reg.username # c.value
          THEN {st}
          ELSE { LET st1 == [SetGame(st, reg.gameID, [game EXCEPT !.deck = p.deck])
                                EXCEPT !.catalog = p.catalog]
                 IN IF p.threw # "none"
                    THEN Throw(st1, p.threw)
                    ELSE Emit([st1 EXCEPT !.drawn[reg.gameID] = Append(@, p.card.code)],
                              ToRoom(rm, reg.gameID, "pickedNextCard",
                                     [picker |-> reg.username, card |-> p.card]))
                 : p \in pickNextCard(game.deck, st.catalog) }

\* Mutant of onLeaveRoom: the empty game is left in the registry.
onLeaveRoom_NoDelete(reg, st, rm) ==
  IF reg.gameID \notin DOMAIN st.games
  THEN {Throw(st, "TypeError")}
  ELSE LET g1 == removePlayer(st.games[reg.gameID], reg.username)
           h == calcHost(g1)
       IN {Emit(SetGame(st, reg.gameID, h.game),
                ToRoom(rm, reg.gameID, "userLeft", [players |-> g1.players, host |-> h.ret]))}

\* Mutant of onLeaveRoom: the player removed is the game's host, whoever
\* the listener was registered for.
onLeaveRoom_RemoveHost(reg, st, rm) ==
  IF reg.gameID \notin DOMAIN st.games
  THEN {Throw(st, "TypeError")}
  ELSE LET g1 == removePlayer(st.games[reg.gameID], st.games[reg.gameID].host)
           h == calcHost(g1)
           st1 == Emit(SetGame(st, reg.gameID, h.game),
                       ToRoom(rm, reg.gameID, "userLeft",
                              [players |-> g1.players, host |-> h.ret]))
       IN IF numPlayers(h.game) = 0
          THEN {[st1 EXCEPT !.games = DeleteGame(@, reg.gameID)]}
          ELSE {st1}

\* Mutant of onLeaveRoom: the game is deleted whoever is left in it.
onLeaveRoom_DeleteAlways(reg, st, rm) ==
  IF reg.gameID \notin DOMAIN st.games
  THEN {Throw(st, "TypeError")}
  ELSE LET g1 == removePlayer(st.games[reg.gameID], reg.username)
           h == calcHost(g1)
           st1 == Emit(SetGame(st, reg.gameID, h.game),
                       ToRoom(rm, reg.gameID, "userLeft",
                              [players |-> g1.players, host |-> h.ret]))
       IN {[st1 EXCEPT !.games = DeleteGame(@, reg.gameID)]}

\* Mutant of onLeaveRoom: userLeft carries the roster and host as they were
\* before the removal.
onLeaveRoom_AnnounceOld(reg, st, rm) ==
  IF reg.gameID \notin DOMAIN st.games
  THEN {Throw(st, "TypeError")}
  ELSE LET g0 == st.games[reg.gameID]
           g1 == removePlayer(g0, reg.username)
           h == calcHost(g1)
           st1 == Emit(SetGame(st, reg.gameID, h.game),
                       ToRoom(rm, reg.gameID, "userLeft",
                              [players |-> g0.players, host |-> g0.host]))
       IN IF numPlayers(h.game) = 0
          THEN {[st1 EXCEPT !.games = DeleteGame(@, reg.gameID)]}
          ELSE {st1}

\* socket.on('disconnect', ...) of onLeaveRoom
onLeaveRoom(reg, st, rm) ==
  IF reg.gameID \notin DOMAIN st.games
  THEN {Throw(st, "TypeError")}
  ELSE LET g1 == removePlayer(st.games[reg.gameID], reg.username)
           h == calcHost(g1)
           st1 == Emit(SetGame(st, reg.gameID, h.game),
                       ToRoom(rm, reg.gameID, "userLeft",
                              [players |-> g1.players, host |-> h.ret]))
       IN IF numPlayers(h.game) = 0
          THEN {[st1 EXCEPT !.games = DeleteGame(@, reg.gameID)]}
          ELSE {st1}

\* The listener a registration holds for one event name.
Listener(ev, reg, st, rm) ==
  CASE ev = "startGame" -> registerStartGameEvent(reg, st, rm)
    [] ev = "nextRound" -> onNextRound(reg, st, rm)
    [] ev = "getCard" -> onGetCard(reg, st, rm)
    [] ev = "disconnect" -> onLeaveRoom(reg, st, rm)

\* EventEmitter.emit: the listeners run in registration order; an exception
\* thrown by one propagates, so the later ones do not run.
RECURSIVE Dispatch(_, _, _, _)
Dispatch(ev, rs, st, rm) ==
  IF rs = <<>>
  THEN {st}
  ELSE UNION { IF st1.thrown # "none" THEN {st1} ELSE Dispatch(ev, Tail(rs), st1, rm)
               : st1 \in Listener(ev, Head(rs), st, rm) }

Fresh == [games |-> games, emitted |-> <<>>, thrown |-> "none",
          catalog |-> catalog, drawn |-> hist.drawn]

\* hist after the messages msgs were emitted, in order.
RECURSIVE Observe(_, _)
Observe(h, msgs) ==
  IF msgs = <<>>
  THEN h
  ELSE LET m == Head(msgs)
           h1 == CASE m.name = "nextRound" ->
                        [h EXCEPT !.round[m.room] = m.payload.username]
                   [] m.name \in {"userJoined", "userLeft"} ->
                        [h EXCEPT !.roster[m.room] = m.payload.players]
                   [] m.name = "gameJoined" ->
                        [h EXCEPT !.roster[m.payload.gameID] = m.payload.players]
                   [] OTHER -> h
       IN Observe(h1, Tail(msgs))

NoHistory ==
  [ round |-> [g \in GameIDs |-> Undefined],
    roster |-> [g \in GameIDs |-> <<>>],
    drawn |-> [g \in GameIDs |-> <<>>] ]

\* ------------------------------------------------- the gateway: actions
Init ==
  /\ games = <<>>
  /\ rooms = [g \in GameIDs |-> {}]
  /\ connected = {}
  /\ regs = [s \in Sockets |-> <<>>]
  /\ usedIDs = 0
  /\ emitted = <<>>
  /\ thrown = "none"
  /\ event = [before |-> <<>>, type |-> "init"]
  /\ ret = Undefined
  /\ catalog = LoadedCatalog
  /\ hist = NoHistory

\* socketServer.on('connection', ...): a client connects; its socket is a new
\* object, with no listener of createGame / joinGame registrations yet.
EvConnection(s) ==
  /\ s \notin connected
  /\ connected' = connected \cup {s}
  /\ regs' = [regs EXCEPT ![s] = <<>>]
  /\ event' = [before |-> games, type |-> "connection", socket |-> s]
  /\ emitted' = <<>>
  /\ thrown' = "none"
  /\ UNCHANGED <<games, rooms, usedIDs, ret, catalog, hist>>

\* socket.on('createGame', ...) of onCreateGame; id is what nanoid returns: an
\* id it has not returned before (ids are numbered in the order of creation).
EvCreateGame(s, gameName, hostName, id) ==
  /\ s \in connected
  /\ Len(regs[s]) < MaxRegs
  /\ id = usedIDs + 1
  /\ LET game == NewGame(gameName, hostName, id)
     IN /\ rooms' = [rooms EXCEPT ![id] = @ \cup {s}]
        /\ games' = [g \in (DOMAIN games) \cup {id} |-> IF g = id THEN game ELSE games[g]]
        /\ emitted' = <<ToSocket(s, "gameJoined",
                          [gameName |-> gameName, username |-> hostName,
                           gameID |-> id, players |-> game.players])>>
        /\ regs' = [regs EXCEPT ![s] = Append(@, [gameID |-> id, username |-> hostName])]
  /\ usedIDs' = id
  /\ thrown' = "none"
  /\ event' = [before |-> games, type |-> "createGame", socket |-> s, gameName |-> gameName,
               hostName |-> hostName, gameID |-> id]
  /\ hist' = Observe(hist, emitted')
  /\ UNCHANGED <<connected, ret, catalog>>

\* Mutant of EvJoinGame: no `game === undefined` test, so an unknown gameID
\* runs into undefined.addPlayer.
EvJoinGame_NoUndefinedTest(s, gameID, username) ==
  /\ s \in connected
  /\ event' = [before |-> games, type |-> "joinGame", socket |-> s, gameID |-> gameID, username |-> username]
  /\ UNCHANGED <<connected, usedIDs, ret, catalog>>
  /\ IF gameID \notin DOMAIN games
     THEN /\ emitted' = <<>>
          /\ thrown' = "TypeError"
          /\ UNCHANGED <<games, rooms, regs>>
     ELSE LET a == addPlayer(games[gameID], username)
              rm == [rooms EXCEPT ![gameID] = @ \cup {s}]
          IN IF a.threw # "none"
             THEN /\ thrown' = a.threw
                  /\ emitted' = <<>>
                  /\ UNCHANGED <<games, rooms, regs>>
             ELSE /\ Len(regs[s]) < MaxRegs
                  /\ games' = [games EXCEPT ![gameID] = a.game]
                  /\ rooms' = rm
                  /\ emitted' = <<ToRoom(rm, gameID, "userJoined", [players |-> a.game.players]),
                                  ToSocket(s, "gameJoined",
                                    [gameName |-> a.game.gameName, username |-> username,
                                     gameID |-> gameID, players |-> a.game.players])>>
                  /\ regs' = [regs EXCEPT ![s] = Append(@, [gameID |-> gameID, username |-> username])]
                  /\ thrown' = "none"
  /\ hist' = Observe(hist, emitted')

\* socket.on('joinGame', ...) of onJoinGame
EvJoinGame(s, gameID, username) ==
  /\ s \in connected
  /\ event' = [before |-> games, type |-> "joinGame", socket |-> s, gameID |-> gameID, username |-> username]
  /\ UNCHANGED <<connected, usedIDs, ret, catalog>>
  /\ IF gameID \notin DOMAIN games
     THEN /\ emitted' = <<ToSocket(s, "invalidGame", [gameID |-> gameID])>>
          /\ thrown' = "none"
          /\ UNCHANGED <<games, rooms, regs>>
     ELSE LET a == addPlayer(games[gameID], username)
              rm == [rooms EXCEPT ![gameID] = @ \cup {s}]
          IN IF a.threw # "none"
             THEN /\ thrown' = a.threw
                  /\ emitted' = <<>>
                  /\ UNCHANGED <<games, rooms, regs>>
             ELSE /\ Len(regs[s]) < MaxRegs
                  /\ games' = [games EXCEPT ![gameID] = a.game]
                  /\ rooms' = rm
                  /\ emitted' = <<ToRoom(rm, gameID, "userJoined", [players |-> a.game.players]),
                                  ToSocket(s, "gameJoined",
                                    [gameName |-> a.game.gameName, username |-> username,
                                     gameID |-> gameID, players |-> a.game.players])>>
                  /\ regs' = [regs EXCEPT ![s] = Append(@, [gameID |-> gameID, username |-> username])]
                  /\ thrown' = "none"
  /\ hist' = Observe(hist, emitted')

\* An inbound startGame, nextRound or getCard on socket s: every listener the
\* socket holds for it runs.
EvSocket(s, ev) ==
  /\ s \in connected
  /\ \E st \in Dispatch(ev, regs[s], Fresh, rooms) :
       /\ games' = st.games
       /\ emitted' = st.emitted
       /\ thrown' = st.thrown
       /\ catalog' = st.catalog
       /\ hist' = Observe([hist EXCEPT !.drawn = st.drawn], st.emitted)
  /\ event' = [before |-> games, type |-> ev, socket |-> s]
  /\ UNCHANGED <<rooms, connected, regs, usedIDs, ret>>

EvStartGame(s) == EvSocket(s, "startGame")
EvNextRound(s) == EvSocket(s, "nextRound")
EvGetCard(s) == EvSocket(s, "getCard")

\* The socket closes: Socket.IO takes it out of its rooms, then emits
\* 'disconnect' on it (the logging listener of line 210 has no effect).
EvDisconnect(s) ==
  /\ s \in connected
  /\ connected' = connected \ {s}
  /\ rooms' = [g \in GameIDs |-> rooms[g] \ {s}]
  /\ \E st \in Dispatch("disconnect", regs[s], Fresh, rooms') :
       /\ games' = st.games
       /\ emitted' = st.emitted
       /\ thrown' = st.thrown
       /\ catalog' = st.catalog
       /\ hist' = Observe([hist EXCEPT !.drawn = st.drawn], st.emitted)
  /\ event' = [before |-> games, type |-> "disconnect", socket |-> s]
  /\ UNCHANGED <<regs, usedIDs, ret>>

Next ==
  \/ \E s \in Sockets : EvConnection(s)
  \/ \E s \in Sockets, n \in GameNames, h \in Usernames, id \in GameIDs : EvCreateGame(s, n, h, id)
  \/ \E s \in Sockets, g \in GameIDs, u \in Usernames : EvJoinGame(s, g, u)
  \/ \E s \in Sockets : EvStartGame(s)
  \/ \E s \in Sockets : EvNextRound(s)
  \/ \E s \in Sockets : EvGetCard(s)
  \/ \E s \in Sockets : EvDisconnect(s)

Spec == Init /\ [][Next]_vars

\* ------------------------------------------ the Game class alone: SpecGame
\* One Game object, held under TheGame; a step is one method call on it.  The
\* program drops a Game as soon as its roster is empty (onLeaveRoom, after
\* removePlayer and calcHost), so only calcHost is called on an empty one.
TheGame == 1

Live == numPlayers(games[TheGame]) >= 1

InitGame ==
  /\ \E n \in GameNames, h \in Usernames : games = [g \in {TheGame} |-> NewGame(n, h, TheGame)]
  /\ rooms = [g \in GameIDs |-> {}]
  /\ connected = {}
  /\ regs = [s \in Sockets |-> <<>>]
  /\ usedIDs = 1
  /\ emitted = <<>>
  /\ thrown = "none"
  /\ event = [before |-> <<>>, type |-> "new Game"]
  /\ ret = Undefined
  /\ catalog = LoadedCatalog
  /\ hist = NoHistory

Gateway == <<rooms, connected, regs, usedIDs, emitted>>
Cards == <<catalog, hist>>

CallAddPlayer(player) ==
  LET a == addPlayer(games[TheGame], player)
  IN /\ Live
     /\ games' = [games EXCEPT ![TheGame] = a.game]
     /\ thrown' = a.threw
     /\ ret' = Undefined
     /\ event' = [before |-> games, type |-> "addPlayer", arg |-> player]
     /\ UNCHANGED Gateway
     /\ UNCHANGED Cards

CallStartGame ==
  /\ Live
  /\ \E g2 \in startGame(games[TheGame]) : games' = [games EXCEPT ![TheGame] = g2]
  /\ thrown' = "none"
  /\ ret' = Undefined
  /\ event' = [before |-> games, type |-> "startGame"]
  /\ UNCHANGED Gateway
  /\ UNCHANGED Cards

CallNextPlayer ==
  LET n == nextPlayer(games[TheGame])
  IN /\ Live
     /\ games' = [games EXCEPT ![TheGame] = n.game]
     /\ thrown' = "none"
     /\ ret' = n.ret
     /\ event' = [before |-> games, type |-> "nextPlayer"]
     /\ UNCHANGED Gateway
     /\ UNCHANGED Cards

CallRemovePlayer(username) ==
  /\ Live
  /\ games' = [games EXCEPT ![TheGame] = removePlayer(@, username)]
  /\ thrown' = "none"
  /\ ret' = Undefined
  /\ event' = [before |-> games, type |-> "removePlayer", arg |-> username]
  /\ UNCHANGED Gateway
  /\ UNCHANGED Cards

CallCalcHost ==
  LET h == calcHost(games[TheGame])
  IN /\ games' = [games EXCEPT ![TheGame] = h.game]
     /\ thrown' = "none"
     /\ ret' = h.ret
     /\ event' = [before |-> games, type |-> "calcHost"]
     /\ UNCHANGED Gateway
     /\ UNCHANGED Cards

CallPickNextCard ==
  /\ Live
  /\ \E p \in pickNextCard(games[TheGame].deck, catalog) :
       /\ games' = [games EXCEPT ![TheGame].deck = p.deck]
       /\ thrown' = p.threw
       /\ ret' = p.card
       /\ catalog' = p.catalog
       /\ hist' = IF p.threw = "none"
                  THEN [hist EXCEPT !.drawn[TheGame] = Append(@, p.card.code)]
                  ELSE hist
  /\ event' = [before |-> games, type |-> "pickNextCard"]
  /\ UNCHANGED Gateway

NextGame ==
  \/ \E u \in Usernames : CallAddPlayer(u)
  \/ CallStartGame
  \/ CallNextPlayer
  \/ \E u \in Usernames : CallRemovePlayer(u)
  \/ CallCalcHost
  \/ CallPickNextCard

SpecGame == InitGame /\ [][NextGame]_vars

\* -------------------------------------- two Game objects: SpecSessions
\* The registry holds two games built by the constructor, as after two
\* createGame events; a step is one method call on one of them.  The gateway
\* cannot reach nextPlayer and pickNextCard (CallCurrentPlayer), so what a
\* draw in one game does to the other is examined on the objects themselves.
SessionUsers == { Names[1], Names[2] }

InitSessions ==
  /\ \E h \in [GameIDs -> SessionUsers] :
       games = [g \in GameIDs |-> NewGame("Pub Quiz", h[g], g)]
  /\ rooms = [g \in GameIDs |-> {}]
  /\ connected = {}
  /\ regs = [s \in Sockets |-> <<>>]
  /\ usedIDs = MaxGames
  /\ emitted = <<>>
  /\ thrown = "none"
  /\ event = [before |-> <<>>, type |-> "new Game"]
  /\ ret = Undefined
  /\ catalog = LoadedCatalog
  /\ hist = NoHistory

\* Mutant of SessPickNextCard: all games hold one Deck instance.
SessPickNextCard_OneDeck(g) ==
  /\ numPlayers(games[g]) >= 1
  /\ \E p \in pickNextCard(games[g].deck, catalog) :
       /\ games' = [h \in DOMAIN games |-> [games[h] EXCEPT !.deck = p.deck]]
       /\ thrown' = p.threw
       /\ ret' = p.card
       /\ catalog' = p.catalog
       /\ hist' = IF p.threw = "none"
                  THEN [hist EXCEPT !.drawn[g] = Append(@, p.card.code)]
                  ELSE hist
  /\ event' = [before |-> games, type |-> "pickNextCard", game |-> g]
  /\ UNCHANGED Gateway

SessAddPlayer(g, player) ==
  LET a == addPlayer(games[g], player)
  IN /\ numPlayers(games[g]) >= 1
     /\ games' = [games EXCEPT ![g] = a.game]
     /\ thrown' = a.threw
     /\ ret' = Undefined
     /\ event' = [before |-> games, type |-> "addPlayer", game |-> g, arg |-> player]
     /\ UNCHANGED Gateway
     /\ UNCHANGED Cards

SessStartGame(g) ==
  /\ numPlayers(games[g]) >= 1
  /\ \E g2 \in startGame(games[g]) : games' = [games EXCEPT ![g] = g2]
  /\ thrown' = "none"
  /\ ret' = Undefined
  /\ event' = [before |-> games, type |-> "startGame", game |-> g]
  /\ UNCHANGED Gateway
  /\ UNCHANGED Cards

SessNextPlayer(g) ==
  LET n == nextPlayer(games[g])
  IN /\ numPlayers(games[g]) >= 1
     /\ games' = [games EXCEPT ![g] = n.game]
     /\ thrown' = "none"
     /\ ret' = n.ret
     /\ event' = [before |-> games, type |-> "nextPlayer", game |-> g]
     /\ UNCHANGED Gateway
     /\ UNCHANGED Cards

\* removePlayer then calcHost, as onLeaveRoom calls them.
SessLeave(g, username) ==
  LET h == calcHost(removePlayer(games[g], username))
  IN /\ numPlayers(games[g]) >= 1
     /\ games' = [games EXCEPT ![g] = h.game]
     /\ thrown' = "none"
     /\ ret' = h.ret
     /\ event' = [before |-> games, type |-> "leave", game |-> g, arg |-> username]
     /\ UNCHANGED Gateway
     /\ UNCHANGED Cards

SessPickNextCard(g) ==
  /\ numPlayers(games[g]) >= 1
  /\ \E p \in pickNextCard(games[g].deck, catalog) :
       /\ games' = [games EXCEPT ![g].deck = p.deck]
       /\ thrown' = p.threw
       /\ ret' = p.card
       /\ catalog' = p.catalog
       /\ hist' = IF p.threw = "none"
                  THEN [hist EXCEPT !.drawn[g] = Append(@, p.card.code)]
                  ELSE hist
  /\ event' = [before |-> games, type |-> "pickNextCard", game |-> g]
  /\ UNCHANGED Gateway

NextSessions ==
  \/ \E g \in GameIDs, u \in SessionUsers : SessAddPlayer(g, u)
  \/ \E g \in GameIDs : SessStartGame(g)
  \/ \E g \in GameIDs : SessNextPlayer(g)
  \/ \E g \in GameIDs, u \in SessionUsers : SessLeave(g, u)
  \/ \E g \in GameIDs : SessPickNextCard(g)

SpecSessions == InitSessions /\ [][NextSessions]_vars

\* ================================================================ claims
Range(arr) == { arr[i] : i \in 1..Len(arr) }

\* The step that led to this state handled event type t.
Handled(t) == event.type = t

\* The (gameID, username) pairs registered on socket s.
RegSet(s) == Range(regs[s])

\* A message with this name was emitted to room g while handling the last event.
EmittedTo(g, name) == \E i \in 1..Len(emitted) : emitted[i].name = name /\ emitted[i].room = g

\* --------------------------------------------------------------------- C1
\* C1: in every reachable state, every game in the registry has
\* 0 <= currentPlayerIndex < players.length.
C1_TurnIndexValid ==
  \A g \in DOMAIN games :
    games[g].currentPlayerIndex \in 0..(Len(games[g].players) - 1)

\* --------------------------------------------------------------------- C2
\* Every player of game g (as it was before the event) was registered by socket s.
AllPlayersOf(g, s) ==
  \A u \in Range(event.before[g].players) : [gameID |-> g, username |-> u] \in RegSet(s)

\* C2: every game in the registry has at least one player after every event,
\* and a game leaves the registry exactly in the event that removes its last
\* players: the disconnect of the socket that registered all of them.
C2_NonEmptyUntilDeleted ==
  /\ \A g \in DOMAIN games : Len(games[g].players) >= 1
  /\ \A g \in DOMAIN event.before :
       (g \notin DOMAIN games) <=> (Handled("disconnect") /\ AllPlayersOf(g, event.socket))

\* C2 witness: a disconnect removed the only player of a game and the game is
\* gone from the registry.
C2_Witness ==
  /\ Handled("disconnect")
  /\ \E g \in DOMAIN event.before :
       /\ Len(event.before[g].players) = 1
       /\ AllPlayersOf(g, event.socket)
       /\ g \notin DOMAIN games
       /\ EmittedTo(g, "userLeft")

\* --------------------------------------------------------------------- C3
\* C3: after a disconnect that removes the host of a game which keeps at
\* least one player, host is the player at position 0 of the remaining
\* roster; and the host of every game in the registry is one of its players.
C3_HostReassigned ==
  /\ \A g \in DOMAIN games : games[g].host \in Range(games[g].players)
  /\ Handled("disconnect") =>
       \A g \in (DOMAIN games) \cap (DOMAIN event.before) :
         event.before[g].host \notin Range(games[g].players)
           => games[g].host = Index(games[g].players, 0)

\* C3 witness: the host of a game with two or more players disconnected and
\* the game, still registered, has another host.
C3_Witness ==
  /\ Handled("disconnect")
  /\ \E g \in (DOMAIN games) \cap (DOMAIN event.before) :
       /\ Len(event.before[g].players) >= 2
       /\ event.before[g].host \notin Range(games[g].players)
       /\ games[g].host = games[g].players[1]
       /\ games[g].host # event.before[g].host

\* --------------------------------------------------------------------- C4
\* No registration of socket s is for the player whose turn it was before
\* the event (and s has a registration, all for games then registered).
NotItsTurn(s) ==
  /\ regs[s] # <<>>
  /\ \A r \in RegSet(s) :
       /\ r.gameID \in DOMAIN event.before
       /\ currentPlayer(event.before[r.gameID]) # r.username

\* C4: a nextRound or getCard from a connection that is not the current
\* player is dropped silently: the listener returns without an exception,
\* every game is as before and nothing is emitted.
C4_NotYourTurnDropped ==
  ((Handled("nextRound") \/ Handled("getCard")) /\ NotItsTurn(event.socket))
    => (games = event.before /\ emitted = <<>> /\ thrown = "none")

\* --------------------------------------------------------------------- C5
\* No registration of socket s is for the host of its game before the event.
NotTheHost(s) ==
  /\ regs[s] # <<>>
  /\ \A r \in RegSet(s) :
       /\ r.gameID \in DOMAIN event.before
       /\ event.before[r.gameID].host # r.username

\* C5: a startGame from a connection that is not the host is ignored:
\* isPlaying and currentPlayerIndex of its games are as before and no
\* nextRound is broadcast.
C5_NotHostIgnored ==
  (Handled("startGame") /\ NotTheHost(event.socket))
    => /\ \A r \in RegSet(event.socket) :
            /\ games[r.gameID].isPlaying = event.before[r.gameID].isPlaying
            /\ games[r.gameID].currentPlayerIndex = event.before[r.gameID].currentPlayerIndex
       /\ \A i \in 1..Len(emitted) : emitted[i].name # "nextRound"

\* --------------------------------------------------------------------- C6
NoDuplicates(arr) == \A i, j \in 1..Len(arr) : i # j => arr[i] # arr[j]

\* The last event was a joinGame for a registered game g with username u.
JoinOf(g, u) ==
  /\ Handled("joinGame")
  /\ event.gameID = g
  /\ event.username = u
  /\ g \in DOMAIN event.before

\* C6 as stated: joining with a username already in players signals
\* DuplicatePlayer and leaves players unchanged; no roster has a duplicate.
C6_DuplicateSignalled ==
  /\ \A g \in DOMAIN games : NoDuplicates(games[g].players)
  /\ \A g \in GameIDs, u \in Usernames :
       (JoinOf(g, u) /\ u \in Range(event.before[g].players))
         => /\ thrown = "Error: already in the game"
            /\ games[g].players = event.before[g].players

\* C6 amended: in a game that has not started, joining with a username
\* already in players signals DuplicatePlayer; in a started game it signals
\* GameAlreadyStarted; either way players is unchanged, and no roster has a
\* duplicate.
C6_DuplicateRejected ==
  /\ \A g \in DOMAIN games : NoDuplicates(games[g].players)
  /\ \A g \in GameIDs, u \in Usernames :
       (JoinOf(g, u) /\ u \in Range(event.before[g].players))
         => /\ thrown = IF event.before[g].isPlaying
                        THEN "Error: already started"
                        ELSE "Error: already in the game"
            /\ games[g].players = event.before[g].players

\* C6 witness: a joinGame with a username already in a lobby's roster threw.
C6_Witness ==
  \E g \in GameIDs, u \in Usernames :
    /\ JoinOf(g, u)
    /\ u \in Range(event.before[g].players)
    /\ ~event.before[g].isPlaying
    /\ thrown = "Error: already in the game"
    /\ games = event.before

\* --------------------------------------------------------------------- C7
\* C7: a joinGame for a started game throws GameAlreadyStarted, leaves every
\* game as it was and emits nothing; no event makes the roster of a started
\* game longer.
C7_NoJoinAfterStart ==
  /\ \A g \in GameIDs, u \in Usernames :
       (JoinOf(g, u) /\ event.before[g].isPlaying)
         => (thrown = "Error: already started" /\ games = event.before /\ emitted = <<>>)
  /\ \A g \in (DOMAIN games) \cap (DOMAIN event.before) :
       event.before[g].isPlaying
         => Len(games[g].players) <= Len(event.before[g].players)

\* C7 witness: a new username tried to join a started game and was rejected.
C7_Witness ==
  \E g \in GameIDs, u \in Usernames :
    /\ JoinOf(g, u)
    /\ event.before[g].isPlaying
    /\ u \notin Range(event.before[g].players)
    /\ thrown = "Error: already started"

\* --------------------------------------------------------------------- C9
\* C9: createGame does not throw and leaves, under a new id, a game that has
\* not started, whose players are exactly <<hostName>>, whose host is
\* hostName and whose deck is the whole catalog; the creator alone is sent
\* gameJoined with that id and roster.
C9_CreateGame ==
  Handled("createGame") =>
    LET id == event.gameID
    IN /\ thrown = "none"
       /\ id \notin DOMAIN event.before
       /\ id \in DOMAIN games
       /\ games[id].gameID = id
       /\ games[id].isPlaying = FALSE
       /\ games[id].players = <<event.hostName>>
       /\ games[id].host = event.hostName
       /\ games[id].deck.cards = cardsJSON
       /\ \A g \in DOMAIN event.before : games[g] = event.before[g]
       /\ emitted = << [name |-> "gameJoined", room |-> 0, to |-> {event.socket},
                        payload |-> [gameName |-> event.gameName, username |-> event.hostName,
                                     gameID |-> id, players |-> <<event.hostName>>]] >>

\* C9 witness: a second game was created while the first one had started.
C9_Witness ==
  /\ Handled("createGame")
  /\ \E g \in DOMAIN event.before : event.before[g].isPlaying
  /\ event.gameID \in DOMAIN games

\* --------------------------------------------------------------------- C8
\* C8: addPlayer, on a game that has not started and with a username not in
\* players, does not throw and leaves players = the earlier players, in their
\* order, followed by the new username.
C8_AppendsInOrder ==
  (Handled("addPlayer")
     /\ ~event.before[TheGame].isPlaying
     /\ event.arg \notin Range(event.before[TheGame].players))
    => /\ thrown = "none"
       /\ Len(games[TheGame].players) = Len(event.before[TheGame].players) + 1
       /\ games[TheGame].players[Len(games[TheGame].players)] = event.arg
       /\ \A i \in 1..Len(event.before[TheGame].players) :
            games[TheGame].players[i] = event.before[TheGame].players[i]

\* C8 witness: a third distinct username was added to a lobby of two.
C8_Witness ==
  /\ Handled("addPlayer")
  /\ thrown = "none"
  /\ ~event.before[TheGame].isPlaying
  /\ Len(event.before[TheGame].players) = 2
  /\ games[TheGame].players = Append(event.before[TheGame].players, event.arg)

\* -------------------------------------------------------------------- C10
\* The usernames k successive nextPlayer calls return, roster unchanged.
RECURSIVE Turns(_, _)
Turns(game, k) ==
  IF k = 0 THEN <<>>
  ELSE LET n == nextPlayer(game) IN <<n.ret>> \o Turns(n.game, k - 1)

\* C10: with N >= 1 players, nextPlayer leaves currentPlayerIndex =
\* (old index + 1) mod N and returns the player there; N successive calls
\* return every player exactly once and end on the player whose turn it was
\* before the first call.
C10_AdvanceTurnCycles ==
  LET game == games[TheGame]
      N == Len(game.players)
  IN N >= 1 =>
       /\ Handled("nextPlayer") =>
            /\ game.currentPlayerIndex = (event.before[TheGame].currentPlayerIndex + 1) % N
            /\ ret = game.players[game.currentPlayerIndex + 1]
       /\ Len(Turns(game, N)) = N
       /\ Range(Turns(game, N)) = Range(game.players)
       /\ Turns(game, N)[N] = currentPlayer(game)

\* -------------------------------------------------------------------- C11
\* The codes pickNextCard has returned on the game's deck so far.
Drawn == hist.drawn[TheGame]

\* C11: the codes pickNextCard has returned on one deck are pairwise
\* distinct codes of the catalog, they are exactly the codes no longer in the
\* deck, and the card a call returns was in the deck before the call and
\* carries action = gameRules[code] (undefined when the code has no rule).
C11_DrawsDistinct ==
  /\ \A i, j \in 1..Len(Drawn) : Drawn[i] = Drawn[j] => i = j
  /\ Range(Drawn) \subseteq Range(cardsJSON)
  /\ Range(Drawn) \cap Range(games[TheGame].deck.cards) = {}
  /\ Len(Drawn) + Len(games[TheGame].deck.cards) = Len(cardsJSON)
  /\ (Handled("pickNextCard") /\ thrown = "none") =>
       /\ ret.code = Drawn[Len(Drawn)]
       /\ ret.code \in Range(event.before[TheGame].deck.cards)
       /\ ret.action = gameRules(ret.code)

\* K = N: the whole deck has been drawn, the last card by the last call.
C11_Witness ==
  /\ Handled("pickNextCard")
  /\ thrown = "none"
  /\ Len(Drawn) = Len(cardsJSON)
  /\ Len(Drawn) >= 2
  /\ \E i \in 1..Len(Drawn) : gameRules(Drawn[i]) = <<Undefined>>

\* -------------------------------------------------------------------- C12
\* C12: pickNextCard on a deck with no cards left fails with EmptyDeck,
\* returns no card and leaves the game, the catalog and the draw history as
\* they were.
C12_EmptyDeckDefined ==
  (Handled("pickNextCard") /\ event.before[TheGame].deck.cards = <<>>) =>
    /\ thrown = "EmptyDeck"
    /\ ret = Undefined
    /\ games = event.before
    /\ Len(Drawn) = Len(cardsJSON)

\* -------------------------------------------------------------------- C13
\* Socket s holds exactly one registration, for the player whose turn it was
\* in its game before the event, and that game's deck was not empty.
ItsTurnToDraw(s) ==
  /\ Len(regs[s]) = 1
  /\ regs[s][1].gameID \in DOMAIN event.before
  /\ currentPlayer(event.before[regs[s][1].gameID]) = regs[s][1].username
  /\ event.before[regs[s][1].gameID].deck.cards # <<>>

\* C13: a getCard from the current player on a non-empty deck broadcasts
\* exactly one pickedNextCard to the game's room, with picker = that username
\* and a card that was in the deck; the deck is one card shorter, and players,
\* currentPlayerIndex, host and isPlaying are as before.
C13_CurrentPlayerDraws ==
  (Handled("getCard") /\ ItsTurnToDraw(event.socket)) =>
    LET g == regs[event.socket][1].gameID
        old == event.before[g]
        picked == { i \in 1..Len(emitted) :
                      emitted[i].name = "pickedNextCard" /\ emitted[i].room = g }
    IN /\ Cardinality(picked) = 1
       /\ \A i \in picked :
            /\ emitted[i].payload.picker = regs[event.socket][1].username
            /\ emitted[i].payload.card.code \in Range(old.deck.cards)
       /\ g \in DOMAIN games
       /\ Len(games[g].deck.cards) = Len(old.deck.cards) - 1
       /\ games[g].players = old.players
       /\ games[g].currentPlayerIndex = old.currentPlayerIndex
       /\ games[g].host = old.host
       /\ games[g].isPlaying = old.isPlaying

\* -------------------------------------------------------------------- C14
\* The last event was a startGame sent on a socket registered for game g
\* under the username of g's host.
StartByHost(g) ==
  /\ Handled("startGame")
  /\ \E r \in RegSet(event.socket) :
       r.gameID = g /\ r.username = event.before[g].host

\* C14: a game is created with isPlaying = false; isPlaying turns true only
\* on a startGame by the game's host; once true it stays true as long as the
\* game is registered.
C14_LobbyUntilHostStarts ==
  /\ Handled("createGame") => ~games[event.gameID].isPlaying
  /\ \A g \in DOMAIN games \cap DOMAIN event.before :
       /\ event.before[g].isPlaying => games[g].isPlaying
       /\ (~event.before[g].isPlaying /\ games[g].isPlaying) => StartByHost(g)

\* The parts of C14 the code keeps: created in Lobby, started only by a
\* startGame, never back to Lobby.
C14_NoWayBack ==
  /\ Handled("createGame") => ~games[event.gameID].isPlaying
  /\ \A g \in DOMAIN games \cap DOMAIN event.before :
       /\ event.before[g].isPlaying => games[g].isPlaying
       /\ (~event.before[g].isPlaying /\ games[g].isPlaying) => Handled("startGame")

\* -------------------------------------------------------------------- C15
\* The last event was a joinGame for a gameID the registry did not hold.
JoinUnknown ==
  /\ Handled("joinGame")
  /\ event.gameID \notin DOMAIN event.before

\* C15: a joinGame for a gameID that is not in the registry emits invalidGame
\* with that gameID to the requesting socket and nothing else, throws nothing,
\* leaves the registry as it was (no entry for that gameID), and neither puts
\* the socket in the room of that gameID nor registers listeners for it.
C15_InvalidGame ==
  JoinUnknown =>
    /\ emitted = <<[name |-> "invalidGame", room |-> 0, to |-> {event.socket},
                    payload |-> [gameID |-> event.gameID]]>>
    /\ thrown = "none"
    /\ games = event.before
    /\ event.gameID \notin DOMAIN games
    /\ event.socket \notin rooms[event.gameID]
    /\ \A r \in RegSet(event.socket) : r.gameID # event.gameID
    /\ \A g \in GameIDs : event.socket \in rooms[g] =>
         \E r \in RegSet(event.socket) : r.gameID = g

\* An unknown gameID is asked for while another game is registered and other
\* sockets sit in its room.
C15_Witness ==
  /\ JoinUnknown
  /\ \E g \in DOMAIN games : rooms[g] # {} /\ event.socket \notin rooms[g]

\* -------------------------------------------------------------------- C16
\* C16: a method call on one game leaves every other game as it was (players,
\* currentPlayerIndex, host, isPlaying, deck); the cards left in a game's deck
\* are the catalog's minus the cards drawn in that game alone, so a card drawn
\* in one game can still be drawn in the others, and it is returned there with
\* action = gameRules[code] all the same.
C16_SessionsIndependent ==
  /\ \A g \in DOMAIN games :
       /\ (event.type # "new Game" /\ event.game # g) => games[g] = event.before[g]
       /\ Range(games[g].deck.cards) = Range(cardsJSON) \ Range(hist.drawn[g])
  /\ (Handled("pickNextCard") /\ thrown = "none") =>
       /\ ret.code \in Range(event.before[event.game].deck.cards)
       /\ ret.action = gameRules(ret.code)

\* A card with a rule that was drawn in another game before is now drawn in
\* this one, which has moved on in other ways since its construction.
C16_Witness ==
  /\ Handled("pickNextCard")
  /\ thrown = "none"
  /\ gameRules(ret.code) # <<Undefined>>
  /\ \E g \in DOMAIN games :
       /\ g # event.game
       /\ ret.code \in Range(hist.drawn[g])
       /\ games[g].isPlaying
       /\ numPlayers(games[g]) >= 2
       /\ games[g] # games[event.game]

\* At the gateway: an event on a socket leaves every game unchanged that the
\* socket holds no registration for and that is not the game named in a
\* joinGame or made by a createGame.
C16_GatewayFrame ==
  \A g \in DOMAIN games \cap DOMAIN event.before :
    ( /\ event.type \in {"joinGame", "startGame", "nextRound", "getCard", "disconnect"}
      /\ \A r \in RegSet(event.socket) : r.gameID # g
      /\ Handled("joinGame") => event.gameID # g )
    => games[g] = event.before[g]

\* -------------------------------------------------------------------- C17
\* C17: the catalog never changes: whatever has been drawn, GET /cards
\* answers what it answered at startup.
C17_CatalogReadOnly == GetCards(catalog) = GetCards(LoadedCatalog)

\* -------------------------------------------------------------------- C18
\* C18: for every game that is playing, the username of the last nextRound
\* broadcast to its room is the game's current player.
C18_ClientsSeeTurn ==
  \A g \in DOMAIN games :
    games[g].isPlaying => hist.round[g] = currentPlayer(games[g])

\* -------------------------------------------------------------------- C19
\* The positions in emitted of the messages called name sent to room g.
SentTo(g, name) ==
  { i \in 1..Len(emitted) : emitted[i].name = name /\ emitted[i].room = g }

\* The last of a non-empty set of positions.
Last(S) == CHOOSE i \in S : \A j \in S : j <= i

\* C19: the players list of the last userJoined / userLeft / gameJoined
\* message about a game is the game's players list; a joinGame that changed
\* a roster sent userJoined to the game's room (the joiner included) with the
\* new list; a disconnect that changed a roster sent userLeft to the game's
\* room, the last one with the list and the host as they are after it (an
\* empty list and no host when the game was emptied and deleted).
C19_RosterAnnounced ==
  /\ \A g \in DOMAIN games : hist.roster[g] = games[g].players
  /\ \A g \in DOMAIN event.before :
       /\ (Handled("joinGame") /\ g \in DOMAIN games
             /\ games[g].players # event.before[g].players) =>
            /\ SentTo(g, "userJoined") # {}
            /\ LET m == emitted[Last(SentTo(g, "userJoined"))]
               IN /\ m.payload.players = games[g].players
                  /\ m.to = rooms[g]
                  /\ event.socket \in m.to
       /\ (Handled("disconnect")
             /\ (g \notin DOMAIN games \/ games[g].players # event.before[g].players)) =>
            /\ SentTo(g, "userLeft") # {}
            /\ LET m == emitted[Last(SentTo(g, "userLeft"))]
               IN /\ m.to = rooms[g]
                  /\ IF g \in DOMAIN games
                     THEN /\ m.payload.players = games[g].players
                          /\ m.payload.host = games[g].host
                     ELSE /\ m.payload.players = <<>>
                          /\ m.payload.host = Undefined

\* A disconnect took a host out of a game other players stay in: the others
\* were sent the new roster and the new host.
C19_Witness ==
  /\ Handled("disconnect")
  /\ \E g \in DOMAIN games \cap DOMAIN event.before :
       /\ games[g].host # event.before[g].host
       /\ Len(games[g].players) < Len(event.before[g].players)
       /\ SentTo(g, "userLeft") # {}
       /\ rooms[g] # {}

\* -------------------------------------------------------------------- C20
\* arr without the elements equal to x, the others in their order.
Without(arr, x) == SelectSeq(arr, LAMBDA p : p # x)

\* C20: removePlayer(username) throws nothing and leaves players without
\* username, the others in their order (so unchanged when username is not
\* in it); a second removePlayer(username) changes nothing more; and
\* currentPlayerIndex, isPlaying, deck, host, gameName and gameID are as before.
C20_RemoveTouchesRosterOnly ==
  Handled("removePlayer") =>
    LET old == event.before[TheGame]
        new == games[TheGame]
    IN /\ thrown = "none"
       /\ new.players = Without(old.players, event.arg)
       /\ (event.arg \notin Range(old.players)) => new = old
       /\ removePlayer(new, event.arg) = new
       /\ new = [old EXCEPT !.players = new.players]

\* A player who is neither the last of the list nor the one whose turn it is
\* is removed from a started game of three, after a card was drawn, leaving
\* currentPlayerIndex beyond the end of the list.
C20_Witness ==
  /\ Handled("removePlayer")
  /\ Len(event.before[TheGame].players) = 3
  /\ event.arg \in {event.before[TheGame].players[1], event.before[TheGame].players[2]}
  /\ games[TheGame].isPlaying
  /\ games[TheGame].currentPlayerIndex = 2
  /\ Len(games[TheGame].deck.cards) < Len(cardsJSON)

\* -------------------------------------------------------------------- C21
\* C21: between events, every game in the registry has host = players[0];
\* players are kept in joining order, so that is the member who has been in
\* the game longest: a join never changes the host, and a disconnect changes
\* it only when the host itself was removed.
C21_HostIsFirst ==
  /\ \A g \in DOMAIN games : games[g].host = Index(games[g].players, 0)
  /\ \A g \in DOMAIN games \cap DOMAIN event.before :
       /\ Handled("joinGame") => games[g].host = event.before[g].host
       /\ event.before[g].host \in Range(games[g].players)
            => games[g].host = event.before[g].host

\* The host left a game of three: of the two who stay, the one who joined
\* first is the host now.
C21_Witness ==
  /\ Handled("disconnect")
  /\ \E g \in DOMAIN games \cap DOMAIN event.before :
       /\ Len(event.before[g].players) = 3
       /\ Len(games[g].players) = 2
       /\ games[g].players = Tail(event.before[g].players)
       /\ games[g].host = games[g].players[1]
       /\ games[g].host # event.before[g].host

\* -------------------------------------------------------------------- C22
\* The usernames socket s registered for game g (createGame or joinGame).
Registered(s, g) == { r.username : r \in { q \in RegSet(s) : q.gameID = g } }

\* The players of game g in registry gs, none if g is not registered.
PlayersIn(gs, g) == IF g \in DOMAIN gs THEN Range(gs[g].players) ELSE {}

\* C22: the players a disconnect takes out of a game are usernames the
\* disconnecting socket registered for that game, none of them registered by
\* a socket that is still connected; and every username a connected socket
\* registered for a game is in that game's players.
C22_DisconnectRemovesOwn ==
  /\ Handled("disconnect") =>
       \A g \in DOMAIN event.before :
         LET gone == PlayersIn(event.before, g) \ PlayersIn(games, g)
         IN /\ gone \subseteq Registered(event.socket, g)
            /\ \A s \in connected : gone \cap Registered(s, g) = {}
  /\ \A s \in connected : \A g \in GameIDs :
       Registered(s, g) \subseteq PlayersIn(games, g)

\* One of two connected members of a game disconnected: its username is gone,
\* the other's is still there.
C22_Witness ==
  /\ Handled("disconnect")
  /\ \E g \in DOMAIN games \cap DOMAIN event.before :
       /\ Registered(event.socket, g) # {}
       /\ Registered(event.socket, g) \cap PlayersIn(games, g) = {}
       /\ Registered(event.socket, g) \subseteq PlayersIn(event.before, g)
       /\ \E s \in connected : Registered(s, g) # {}

\* -------------------------------------------------------------------- C23
\* C23: every listener a connected socket holds is bound to a gameID that is
\* in the registry, so games[gameID] is defined whenever a startGame,
\* nextRound or getCard listener runs; a disconnect, which runs the socket's
\* onLeaveRoom listeners one after the other and may delete games on the way,
\* ends without an exception (onLeaveRoom throws only on a missing game); and
\* a game a disconnect deleted has no listener left on any connected socket.
C23_HandlersResolve ==
  /\ \A s \in connected : \A r \in RegSet(s) : r.gameID \in DOMAIN games
  /\ Handled("disconnect") =>
       /\ thrown = "none"
       /\ \A g \in (DOMAIN event.before) \ (DOMAIN games) :
            \A s \in connected : Registered(s, g) = {}
  /\ (Handled("startGame") \/ Handled("nextRound") \/ Handled("getCard")) =>
       /\ DOMAIN games = DOMAIN event.before
       /\ \A r \in RegSet(event.socket) : r.gameID \in DOMAIN event.before

\* A socket holding two listeners for one game (it joined under two names)
\* disconnected: the first listener left the game registered for the second,
\* which emptied and deleted it.
C23_Witness ==
  /\ Handled("disconnect")
  /\ thrown = "none"
  /\ \E g \in (DOMAIN event.before) \ (DOMAIN games) :
       /\ Cardinality(Registered(event.socket, g)) = 2
       /\ Len(event.before[g].players) = 2

====
